---- MODULE Spec2Model ----
(***************************************************************************)
(* Forecast bootstrap of the weatherapp ML service: the prediction table   *)
(* (db/schema.py, db/predictions.py), the per-station ensemble             *)
(* (ml/forecast.py, ml/models) and the orchestrator that writes station    *)
(* rows and propagates them to gridpoints (ml/bootstrap.py).               *)
(*                                                                         *)
(* Conventions of the model                                                *)
(*   - a Python float is an exact rational <<n, d>> in lowest terms with   *)
(*     d > 0 (floating-point rounding is not modelled); None is <<>>;      *)
(*     the non-finite floats are NaN and Inf, with d = 0;                  *)
(*   - a date is a day number;                                             *)
(*   - a text column is a string, SQL NULL in source_id is NullId;         *)
(*     model_detail is a tuple of its parts, NULL is <<>>;                 *)
(*   - SQL NULL in horizon_hours is NullHorizon;                           *)
(*   - the table is the sequence of its rows in insertion order, the       *)
(*     position standing for the BIGSERIAL id.                             *)
(***************************************************************************)
EXTENDS Integers, Sequences, FiniteSets, TLC

VARIABLES store, cfg, run, api_calls, call, knn

vars == <<store, cfg, run, api_calls, call, knn>>

----------------------------------------------------------------------------
(* Bounds of the model *)

\* forecast horizon in days (settings.forecast_days, 11 by default)
HorizonDays == 2
\* number of POST /predict/store requests in a behaviour of SpecStore
MaxApiCalls == 3

----------------------------------------------------------------------------
(* Exact rational arithmetic standing for float arithmetic *)

Abs(x) == IF x < 0 THEN 0 - x ELSE x

\* The arithmetic binds its operands once (p, g) before it uses them.
RECURSIVE GCD(_, _)
GCD(a, b) ==
    CHOOSE z \in {IF p[2] = 0 THEN p[1] ELSE GCD(p[2], p[1] % p[2]) :
                    p \in {<<a, b>>}} : TRUE

\* n/d in lowest terms, d > 0
Norm(n, d) ==
    CHOOSE z \in {IF p[1] = 0 THEN <<0, 1>>
                  ELSE CHOOSE q \in {<<p[1] \div g, p[2] \div g>> :
                                        g \in {GCD(Abs(p[1]), p[2])}} : TRUE :
                    p \in {<<n, d>>}} : TRUE

R(n) == <<n, 1>>
RAdd(x, y) ==
    CHOOSE z \in {Norm(p[1][1] * p[2][2] + p[2][1] * p[1][2], p[1][2] * p[2][2]) :
                    p \in {<<x, y>>}} : TRUE
RSub(x, y) ==
    CHOOSE z \in {Norm(p[1][1] * p[2][2] - p[2][1] * p[1][2], p[1][2] * p[2][2]) :
                    p \in {<<x, y>>}} : TRUE
RMul(x, y) ==
    CHOOSE z \in {Norm(p[1][1] * p[2][1], p[1][2] * p[2][2]) :
                    p \in {<<x, y>>}} : TRUE
\* x / y for y > 0
RDiv(x, y) ==
    CHOOSE z \in {Norm(p[1][1] * p[2][2], p[1][2] * p[2][1]) :
                    p \in {<<x, y>>}} : TRUE
RLt(x, y) == x[1] * y[2] < y[1] * x[2]
RLe(x, y) == x[1] * y[2] <= y[1] * x[2]
RMax(x, y) ==
    CHOOSE z \in {IF RLt(p[1], p[2]) THEN p[2] ELSE p[1] : p \in {<<x, y>>}} : TRUE
RMin(x, y) ==
    CHOOSE z \in {IF RLt(p[2], p[1]) THEN p[2] ELSE p[1] : p \in {<<x, y>>}} : TRUE

None == <<>>
\* float("nan") and float("inf")
NaN == <<0, 0>>
Inf == <<1, 0>>
\* np.isfinite
IsFinite(x) == x[2] # 0
\* Python's `x or 0.0`: None and 0.0 both give 0.0
OrZero(x) == IF x = None THEN R(0) ELSE x

----------------------------------------------------------------------------
(* The ml_weather_prediction table *)

NullId == "NULL"
NullHorizon == -1

\* the columns of UNIQUE (source_type, source_id, lat, lon, as_of_date, horizon_hours)
KeyOf(row) ==
    <<row.source_type, row.source_id, row.lat, row.lon, row.as_of_date,
      row.horizon_hours>>

\* a unique index never finds two rows equal on a column that is NULL in one
\* of them (NULLs are distinct), so a row with a NULL key column conflicts
\* with nothing
HasNullKey(row) == row.source_id = NullId \/ row.horizon_hours = NullHorizon

Conflicts(st, row) ==
    UNION {{i \in DOMAIN st : ~k[1] /\ KeyOf(st[i]) = k[2]} :
             k \in {<<HasNullKey(row), KeyOf(row)>>}}

\* a plain INSERT into a table without the unique constraint
InsertOnly(st, row) == Append(st, row)

\* INSERT ... ON CONFLICT (key) DO UPDATE SET <every value column> = EXCLUDED...
\* the table after store_prediction(row)
Upsert(st, row) ==
    CHOOSE z \in {
        IF Conflicts(st, rw) = {}
        THEN Append(st, rw)
        ELSE CHOOSE y \in {[i \in DOMAIN st |-> IF i \in c THEN rw ELSE st[i]] :
                             c \in {Conflicts(st, rw)}} : TRUE :
        rw \in {row}} : TRUE

\* RETURNING id
UpsertId(st, row) ==
    IF Conflicts(st, row) = {}
    THEN Len(st) + 1
    ELSE CHOOSE i \in Conflicts(st, row) : TRUE

\* the rows WHERE source_type = .. AND source_id = .. AND as_of_date = ..
\*            AND horizon_hours BETWEEN 0 AND (days - 1) * 24
\* (a comparison with NULL selects nothing)
WindowRows(st, source_type, source_id, as_of_date, days) ==
    {i \in DOMAIN st :
        /\ st[i].source_type = source_type
        /\ source_id # NullId
        /\ st[i].source_id = source_id
        /\ st[i].as_of_date = as_of_date
        /\ st[i].horizon_hours # NullHorizon
        /\ st[i].horizon_hours >= 0
        /\ st[i].horizon_hours <= (days - 1) * 24}

\* SELECT COUNT(*) ... ; return bool(row and row[0] >= days)
forecast_exists(st, source_type, source_id, as_of_date, days) ==
    Cardinality(WindowRows(st, source_type, source_id, as_of_date, days)) >= days

station_forecast_exists(st, source_type, source_id, as_of_date, days) ==
    Cardinality(WindowRows(st, source_type, source_id, as_of_date, days)) >= days

\* a stored row as the dict load_forecast_rows builds from it
\* (date + timedelta(hours = h) moves a date by whole days only)
RowToPoint(row) ==
    [date          |-> row.as_of_date + (row.horizon_hours \div 24),
     as_of         |-> row.as_of_date,
     horizon_hours |-> row.horizon_hours,
     tmean_c       |-> row.tmean_c,
     prcp_mm       |-> row.prcp_mm,
     tmin_c        |-> row.tmin_c,
     tmax_c        |-> row.tmax_c,
     delta_c       |-> row.delta_c,
     model_name    |-> row.model_name,
     model_detail  |-> row.model_detail,
     confidence    |-> row.confidence]

\* ORDER BY horizon_hours ASC; rows of equal horizon keep the table's order
RECURSIVE SortedByHorizon(_, _)
SortedByHorizon(st, idx) ==
    CHOOSE z \in {
        IF ix = {} THEN <<>>
        ELSE CHOOSE y \in {<<RowToPoint(st[first])>>
                              \o SortedByHorizon(st, ix \ {first}) :
                 first \in {i \in ix :
                        \A k \in ix :
                            \/ st[i].horizon_hours < st[k].horizon_hours
                            \/ /\ st[i].horizon_hours = st[k].horizon_hours
                               /\ i <= k}} : TRUE :
        ix \in {idx}} : TRUE

load_forecast_rows(st, source_type, source_id, as_of_date, days) ==
    SortedByHorizon(st, WindowRows(st, source_type, source_id, as_of_date, days))

\* the row store_prediction inserts for its keyword arguments
MkRow(source_type, source_id, lat, lon, as_of, horizon_hours, p) ==
    [source_type   |-> source_type,
     source_id     |-> source_id,
     lat           |-> lat,
     lon           |-> lon,
     as_of_date    |-> as_of,
     horizon_hours |-> horizon_hours,
     tmean_c       |-> p.tmean_c,
     prcp_mm       |-> p.prcp_mm,
     model_name    |-> p.model_name,
     tmin_c        |-> p.tmin_c,
     tmax_c        |-> p.tmax_c,
     delta_c       |-> p.delta_c,
     model_detail  |-> p.model_detail,
     confidence    |-> p.confidence]

----------------------------------------------------------------------------
(* The per-station ensemble: ml/forecast.py, ml/models/gpr.py, ridge.py *)

StationIds == {"s1", "s2"}
GridIds == {"g1", "g2"}

MinRows == 30

\* the statically configured variants, in the order predict_station_forecast
\* runs them; weight is the bias weight, cap and scale the confidence discount
Gpr ==
    [name |-> "gpr-v1", detail |-> <<"gpr-v1 kernel=rbf+periodic+white">>,
     index |-> 0, weight |-> <<3, 5>>, cap |-> <<7, 10>>, scale |-> R(25)]
RidgeV1 ==
    [name |-> "ridge-v1",
     detail |-> <<"ridge-v1 features=doy_sin_cos,last7_tmean,last7_prcp,trend">>,
     index |-> 1, weight |-> <<2, 5>>, cap |-> <<3, 5>>, scale |-> R(12)]
RidgeSeasonalV2 ==
    [name |-> "ridge-seasonal-v2",
     detail |-> <<"ridge-seasonal doy_sin_cos+7day_mean+trend">>,
     index |-> 2, weight |-> <<2, 5>>, cap |-> <<3, 5>>, scale |-> R(12)]

ridge_models == <<RidgeV1, RidgeSeasonalV2>>

ModelVariants(gpr_enabled) ==
    (IF gpr_enabled THEN <<Gpr>> ELSE <<>>) \o ridge_models

\* The fitted regressors are an opaque library capability: what matters here
\* is that their output is a function of the station's series, the variant
\* and the day (random_state is fixed, so a refit gives the same model).
\* base is the station's temperature level, h the day offset.
RawTmin(base, m, h) == R(base + h - 2 - m.index)
RawTmax(base, m, h) == R(base + h + 2 + m.index)
\* np.expm1 of the precipitation regressor's output, possibly negative
RawPrcp(base, m, h) == R(m.index - 1)
\* std_scale (gpr) or resid_std (ridge)
RawUncertainty(base, m, h) == IF m.index = 0 THEN R(5) ELSE R(3)

\* a series object whatever the number of cleaned rows
AnySeries(series) == TRUE

\* StationSeries.from_rows: no series with fewer than min_rows cleaned rows
HasSeries(series) == series.n >= MinRows

\* the recency score without its floor and without the observation bonus
RecencyOnly(series, base_date, current_temp_c) ==
    RSub(R(1), Norm(IF base_date - series.last_date > 0
                    THEN base_date - series.last_date ELSE 0, 30))

_base_confidence(series, base_date, current_temp_c) ==
    LET days_since_truth ==
            IF base_date - series.last_date > 0
            THEN base_date - series.last_date ELSE 0
        confidence ==
            RMax(<<1, 10>>, RSub(R(1), Norm(days_since_truth, 30)))
    IN  IF current_temp_c # None /\ IsFinite(current_temp_c)
        THEN RMax(<<1, 10>>, RMin(R(1), RAdd(confidence, <<1, 10>>)))
        ELSE confidence

\* no correction towards the current temperature
NoBias(m, current_temp_c, last7_mean) == R(0)

\* bias of one variant: gpr needs both temperatures, ridge reads a missing
\* seven-day mean as 0.0
Bias(m, current_temp_c, last7_mean) ==
    IF m.index = 0
    THEN IF current_temp_c # None /\ last7_mean # None /\ IsFinite(current_temp_c)
         THEN RMul(RSub(current_temp_c, last7_mean), m.weight)
         ELSE R(0)
    ELSE IF current_temp_c # None /\ IsFinite(current_temp_c)
         THEN RMul(RSub(current_temp_c, OrZero(last7_mean)), m.weight)
         ELSE R(0)

\* the two temperatures as the regressors and the bias give them
Unordered(lo, hi) == <<lo, hi>>

\* if tmin_pred > tmax_pred: tmin_pred, tmax_pred = tmax_pred, tmin_pred
Ordered(lo, hi) == IF RLt(hi, lo) THEN <<hi, lo>> ELSE <<lo, hi>>

\* the discounted confidence without its floor
UnflooredConfidence(m, confidence_base, uncertainty) ==
    RSub(confidence_base, RMin(m.cap, RDiv(uncertainty, m.scale)))

\* conf = max(0.1, confidence_base - min(cap, uncertainty / scale))
PointConfidence(m, confidence_base, uncertainty) ==
    RMax(<<1, 10>>,
         RSub(confidence_base, RMin(m.cap, RDiv(uncertainty, m.scale))))

\* one point of GprForecastModel.predict / RidgeForecastModel.predict from
\* the outputs of the fitted regressors for day h: raw_tmin and raw_tmax,
\* raw_prcp (after np.expm1) and uncertainty (std_scale or resid_std)
ForecastPoint(m, base_date, h, raw_tmin, raw_tmax, raw_prcp, uncertainty, current_temp_c, last7_mean, confidence_base) ==
    LET bias == Bias(m, current_temp_c, last7_mean)
        pair == Ordered(RAdd(raw_tmin, bias), RAdd(raw_tmax, bias))
        tmin_pred == pair[1]
        tmax_pred == pair[2]
    IN  [date          |-> base_date + h,
         as_of         |-> base_date,
         horizon_hours |-> h * 24,
         tmin_c        |-> tmin_pred,
         tmax_c        |-> tmax_pred,
         tmean_c       |-> RDiv(RAdd(tmin_pred, tmax_pred), R(2)),
         prcp_mm       |-> RMax(R(0), raw_prcp),
         delta_c       |-> RSub(tmax_pred, tmin_pred),
         model_name    |-> m.name,
         model_detail  |-> m.detail,
         confidence    |-> PointConfidence(m, confidence_base, uncertainty)]

\* the point of day h from the regressors fitted to a station's series
PredictPoint(m, base, base_date, h, current_temp_c, last7_mean, confidence_base) ==
    ForecastPoint(m, base_date, h, RawTmin(base, m, h), RawTmax(base, m, h),
                  RawPrcp(base, m, h), RawUncertainty(base, m, h),
                  current_temp_c, last7_mean, confidence_base)

\* one point per day from tomorrow on
PredictModelFromTomorrow(m, base, base_date, horizon_days, current_temp_c, last7_mean, confidence_base) ==
    [d \in 1..horizon_days |->
        PredictPoint(m, base, base_date, d, current_temp_c, last7_mean,
                     confidence_base)]

\* predict: one point per day of the horizon, in order
PredictModel(m, base, base_date, horizon_days, current_temp_c, last7_mean, confidence_base) ==
    [d \in 1..horizon_days |->
        PredictPoint(m, base, base_date, d - 1, current_temp_c, last7_mean,
                     confidence_base)]

RECURSIVE Concat(_)
Concat(seqs) ==
    IF seqs = <<>> THEN <<>> ELSE Head(seqs) \o Concat(Tail(seqs))

\* predict_station_forecast; None and [] are both <<>>
predict_station_forecast(series, base, current_temp_c, as_of_date, horizon_days, gpr_enabled) ==
    IF ~HasSeries(series) THEN <<>>
    ELSE LET confidence == _base_confidence(series, as_of_date, current_temp_c)
             variants == ModelVariants(gpr_enabled)
         IN  Concat([v \in 1..Len(variants) |->
                        PredictModel(variants[v], base, as_of_date, horizon_days,
                                     current_temp_c, series.last7_mean,
                                     confidence)])

----------------------------------------------------------------------------
(* Gridpoint propagation: the body of the gridpoint loop of bootstrap_forecasts *)

\* days of load_forecast_rows(..., days=11) in the gridpoint loop
LoadDays == 11

\* dict.get on a map that may lack the key
Get(f, key) == IF key \in DOMAIN f THEN f[key] ELSE <<>>

\* the neighbour list and nothing else
NeighbourListOnly(grid_row, neighbor_map) == Get(neighbor_map, grid_row[1])

\* a candidate list that is never empty
StationListOrFirst(grid_row, neighbor_map) ==
    IF Get(neighbor_map, grid_row[1]) # <<>> THEN Get(neighbor_map, grid_row[1])
    ELSE IF grid_row[4] # NullId THEN <<<<grid_row[4], None>>>>
    ELSE <<<<"s1", None>>>>

\* the candidate stations of a gridpoint, each <<station_id, dist_km>>;
\* grid_row is <<grid_id, lat, lon, station_id>>
StationList(grid_row, neighbor_map) ==
    LET neighbor_list == Get(neighbor_map, grid_row[1])
    IN  IF neighbor_list # <<>> THEN neighbor_list
        ELSE IF grid_row[4] # NullId THEN <<<<grid_row[4], None>>>> ELSE <<>>

\* weight of a contributing station
Weight(dist_km) ==
    IF dist_km # None /\ RLt(R(0), dist_km)
    THEN RDiv(R(1), RMax(<<1, 2>>, dist_km))
    ELSE R(1)

\* the stored rows, whatever the run holds in memory
LoadedPreds(station_preds, st, sid, forecast_date) ==
    load_forecast_rows(st, "station", sid, forecast_date, LoadDays)

\* the forecast of this run or nothing
MemoryOnlyPreds(station_preds, st, sid, forecast_date) == Get(station_preds, sid)

\* preds = station_preds.get(sid); if not preds: preds = load_forecast_rows(...)
NeighbourPreds(station_preds, st, sid, forecast_date) ==
    IF Get(station_preds, sid) # <<>>
    THEN Get(station_preds, sid)
    ELSE load_forecast_rows(st, "station", sid, forecast_date, LoadDays)

RECURSIVE SumWeights(_)
SumWeights(station_forecasts) ==
    IF station_forecasts = <<>> THEN R(0)
    ELSE RAdd(Head(station_forecasts).weight, SumWeights(Tail(station_forecasts)))

\* total_weight = sum(w for _, w in station_forecasts) or 1.0
TotalWeight(station_forecasts) ==
    IF SumWeights(station_forecasts) = R(0) THEN R(1)
    ELSE SumWeights(station_forecasts)

\* every (p, w) in the order the grouping loop visits them
RECURSIVE Items(_)
Items(station_forecasts) ==
    IF station_forecasts = <<>> THEN <<>>
    ELSE LET sf == Head(station_forecasts)
         IN  [n \in 1..Len(sf.preds) |-> [p |-> sf.preds[n], w |-> sf.weight]]
             \o Items(Tail(station_forecasts))

\* p.get("model_name") or "model"
BucketModel(p) == IF p.model_name = "" THEN "model" ELSE p.model_name
\* int(p.get("horizon_hours") or 0)
BucketHorizon(p) ==
    IF p.horizon_hours = NullHorizon THEN 0 ELSE p.horizon_hours

\* the distinct elements of a sequence in order of first occurrence
\* (the key order of a dict filled with setdefault)
RECURSIVE Dedup(_)
Dedup(seq) ==
    CHOOSE z \in {
        IF sq = <<>> THEN <<>>
        ELSE CHOOSE y \in {IF \E n \in 1..Len(rest) : rest[n] = sq[Len(sq)]
                           THEN rest ELSE Append(rest, sq[Len(sq)]) :
                             rest \in {Dedup(SubSeq(sq, 1, Len(sq) - 1))}} : TRUE :
        sq \in {seq}} : TRUE

ItemsOfModel(items, model_name) ==
    LET Test(it) == BucketModel(it.p) = model_name
    IN  SelectSeq(items, Test)

ItemsOfBucket(items, model_name, horizon_hours) ==
    LET Test(it) == /\ BucketModel(it.p) = model_name
                    /\ BucketHorizon(it.p) = horizon_hours
    IN  SelectSeq(items, Test)

\* the (model_name, horizon_hours) buckets in the order
\* `for model_name, by_horizon in by_model.items(): for horizon_hours, ...`
Buckets(items) ==
    LET HorizonsOf(model_name) ==
            LET its == ItemsOfModel(items, model_name)
            IN  Dedup([n \in 1..Len(its) |-> BucketHorizon(its[n].p)])
    IN  CHOOSE z \in {
            Concat([m \in 1..Len(models) |->
                      [n \in 1..Len(HorizonsOf(models[m])) |->
                          <<models[m], HorizonsOf(models[m])[n]>>]]) :
            models \in {Dedup([n \in 1..Len(items) |->
                                 BucketModel(items[n].p)])}} : TRUE

\* the sum of the values, the weights left out
RECURSIVE UnweightedSum(_, _)
UnweightedSum(items, field) ==
    IF items = <<>> THEN R(0)
    ELSE RAdd(OrZero(Head(items).p[field]), UnweightedSum(Tail(items), field))

\* sum of (p.get(field) or 0.0) * w over the items of a bucket
RECURSIVE WeightedSum(_, _)
WeightedSum(items, field) ==
    IF items = <<>> THEN R(0)
    ELSE RAdd(RMul(OrZero(Head(items).p[field]), Head(items).w),
              WeightedSum(Tail(items), field))

\* what each accumulated sum is divided by
Divisor(bucket_items, station_forecasts) == TotalWeight(station_forecasts)

MergedField(bucket_items, station_forecasts, field) ==
    RDiv(WeightedSum(bucket_items, field),
         Divisor(bucket_items, station_forecasts))

\* the date of the data instead of the date of the forecast
DataDateAsOf(bucket_items, forecast_date) == forecast_date - 1

\* as_of of a merged row
MergedAsOf(bucket_items, forecast_date) == forecast_date

\* the row stored for one bucket of a gridpoint with several stations
MergedRow(grid_row, bucket, items, station_forecasts, forecast_date, data_date) ==
    CHOOSE z \in {
        [source_type   |-> "gridpoint",
         source_id     |-> grid_row[1],
         lat           |-> grid_row[2],
         lon           |-> grid_row[3],
         as_of_date    |-> MergedAsOf(its, forecast_date),
         horizon_hours |-> bucket[2],
         tmean_c       |-> MergedField(its, station_forecasts, "tmean_c"),
         prcp_mm       |-> MergedField(its, station_forecasts, "prcp_mm"),
         model_name    |-> bucket[1],
         tmin_c        |-> MergedField(its, station_forecasts, "tmin_c"),
         tmax_c        |-> MergedField(its, station_forecasts, "tmax_c"),
         delta_c       |-> MergedField(its, station_forecasts, "delta_c"),
         model_detail  |-> <<"cluster km<=5 stations=", Len(station_forecasts),
                             " data_date=", data_date>>,
         confidence    |-> MergedField(its, station_forecasts, "confidence")] :
        its \in {ItemsOfBucket(items, bucket[1], bucket[2])}} : TRUE

\* a copy that leaves model_detail and confidence at their default None
CopiedRowWithoutDetail(grid_row, p) ==
    MkRow("gridpoint", grid_row[1], grid_row[2], grid_row[3], p.as_of,
          p.horizon_hours, [p EXCEPT !.model_detail = <<>>, !.confidence = None])

\* the row stored for one point of the only contributing station
CopiedRow(grid_row, p) ==
    MkRow("gridpoint", grid_row[1], grid_row[2], grid_row[3], p.as_of,
          p.horizon_hours, p)

\* the store_prediction calls of one gridpoint, in order
GridOut(grid_row, station_forecasts, forecast_date, data_date) ==
    IF station_forecasts = <<>> THEN <<>>
    ELSE IF Len(station_forecasts) = 1
    THEN [n \in 1..Len(station_forecasts[1].preds) |->
            CopiedRow(grid_row, station_forecasts[1].preds[n])]
    ELSE CHOOSE z \in {
             [n \in 1..Len(buckets) |->
                MergedRow(grid_row, buckets[n], items, station_forecasts,
                          forecast_date, data_date)] :
             items \in {Items(station_forecasts)},
             buckets \in {Buckets(Items(station_forecasts))}} : TRUE

----------------------------------------------------------------------------
(* The orchestrator: bootstrap_forecasts, one thread per run *)

RunIds == {1, 2}

\* the list as it is
Uncapped(items, limit) == items

\* items[:limit] `if limit and limit > 0`, else items
Capped(items, limit) ==
    IF limit # 0 /\ limit > 0
    THEN SubSeq(items, 1, IF limit < Len(items) THEN limit ELSE Len(items))
    ELSE items

\* station_items and grid_rows as the loops of a run see them
StationItems == Capped(cfg.station_items, cfg.bootstrap_station_limit)
GridRows == Capped(cfg.grid_rows, cfg.bootstrap_grid_limit)

\* a run that has not been started; station_preds maps a station without
\* an entry to <<>> (the code tests `not preds` only); raised records that
\* an exception was raised inside the try block; after records that the run
\* was started when every other run had completed, and seen is the table it
\* then found
IdleRun ==
    [pc |-> "idle", i |-> 0, j |-> 0, g |-> 0, k |-> 0,
     station_preds |-> [s \in StationIds |-> <<>>],
     station_forecasts |-> <<>>, out |-> <<>>,
     stored_station |-> 0, stored_grid |-> 0, skipped_station |-> 0,
     raised |-> FALSE, after |-> FALSE, seen |-> <<>>]

Active == {"station", "store_station", "grid", "collect", "store_grid"}

Set(r, rec) == run' = [run EXCEPT ![r] = rec]

\* a forecast only for a station with a current temperature
PredsOnlyWithOverlay(sid) ==
    IF cfg.current_temp[sid] = None THEN <<>>
    ELSE predict_station_forecast(cfg.series[sid], cfg.base[sid],
                                  cfg.current_temp[sid], cfg.forecast_date,
                                  HorizonDays, cfg.gpr_enabled)

\* predict_station_forecast for station sid with the inputs of the run
StationPreds(sid) ==
    predict_station_forecast(cfg.series[sid], cfg.base[sid],
                             cfg.current_temp[sid], cfg.forecast_date,
                             HorizonDays, cfg.gpr_enabled)

\* an exception swallowed inside the loop: the run goes on where it was
ContinueAfterException(pc) == pc

\* where a run continues after `except Exception: log.exception(...)`
AfterException(pc) == "failed"

\* threading.Thread(target=bootstrap_forecasts).start(), up to the station
\* loop: the enable flag, the dates and the three loads
Begin(r) ==
    /\ run[r].pc = "idle"
    /\ LET after == \A q \in RunIds \ {r} : run[q].pc = "done"
       IN  Set(r, [run[r] EXCEPT
                     !.pc = IF cfg.bootstrap_enabled THEN "station" ELSE "done",
                     !.i = 1,
                     !.after = after,
                     !.seen = IF after THEN store ELSE <<>>])
    /\ UNCHANGED <<store, cfg, api_calls, call, knn>>

\* a station without coordinates is forecast and held in memory, not stored
StationNextKeepingPreds(r) ==
    /\ run[r].pc = "station"
    /\ run[r].i <= Len(StationItems)
    /\ LET sid == StationItems[run[r].i]
           coords == cfg.station_coords[sid]
           preds == StationPreds(sid)
       IN  IF preds = <<>>
           THEN Set(r, [run[r] EXCEPT !.i = @ + 1])
           ELSE IF coords = <<>>
           THEN Set(r, [run[r] EXCEPT !.station_preds[sid] = preds, !.i = @ + 1])
           ELSE Set(r, [run[r] EXCEPT
                          !.station_preds[sid] = preds,
                          !.pc = "store_station",
                          !.j = 1])
    /\ UNCHANGED <<store, cfg, api_calls, call, knn>>

\* one iteration of `for station_id, rows in station_items` up to its stores
StationNext(r) ==
    /\ run[r].pc = "station"
    /\ run[r].i <= Len(StationItems)
    /\ LET sid == StationItems[run[r].i]
           coords == cfg.station_coords[sid]
           preds == StationPreds(sid)
       IN  IF coords = <<>> \/ preds = <<>>
           THEN Set(r, [run[r] EXCEPT !.i = @ + 1])
           ELSE Set(r, [run[r] EXCEPT
                          !.station_preds[sid] = preds,
                          !.pc = "store_station",
                          !.j = 1])
    /\ UNCHANGED <<store, cfg, api_calls, call, knn>>

\* one store_prediction of the station loop
StoreStation(r) ==
    /\ run[r].pc = "store_station"
    /\ LET sid == StationItems[run[r].i]
           coords == cfg.station_coords[sid]
           preds == run[r].station_preds[sid]
           p == preds[run[r].j]
       IN  /\ store' = Upsert(store, MkRow("station", sid, coords[1], coords[2],
                                           p.as_of, p.horizon_hours, p))
           /\ IF run[r].j < Len(preds)
              THEN Set(r, [run[r] EXCEPT !.j = @ + 1,
                                         !.stored_station = @ + 1])
              ELSE Set(r, [run[r] EXCEPT !.j = 0, !.i = @ + 1,
                                         !.pc = "station",
                                         !.stored_station = @ + 1])
    /\ UNCHANGED <<cfg, api_calls, call, knn>>

\* the station loop is over: load the gridpoints and the neighbour map
StationsDone(r) ==
    /\ run[r].pc = "station"
    /\ run[r].i > Len(StationItems)
    /\ Set(r, [run[r] EXCEPT !.pc = "grid", !.g = 1])
    /\ UNCHANGED <<store, cfg, api_calls, call, knn>>

\* one iteration of `for grid_id, lat, lon, station_id in grid_rows`
\* up to its candidate list
GridNext(r) ==
    /\ run[r].pc = "grid"
    /\ run[r].g <= Len(GridRows)
    /\ IF StationList(GridRows[run[r].g], cfg.neighbor_map) = <<>>
       THEN Set(r, [run[r] EXCEPT !.g = @ + 1])
       ELSE Set(r, [run[r] EXCEPT !.pc = "collect", !.k = 1,
                                  !.station_forecasts = <<>>, !.out = <<>>])
    /\ UNCHANGED <<store, cfg, api_calls, call, knn>>

\* one iteration of `for sid, dist_km in station_list`; sid and dist are
\* kept with the entry so that a weight can be traced to its station
Collect(r) ==
    /\ run[r].pc = "collect"
    /\ LET station_list == StationList(GridRows[run[r].g], cfg.neighbor_map)
       IN  /\ run[r].k <= Len(station_list)
           /\ LET sid == station_list[run[r].k][1]
                  dist_km == station_list[run[r].k][2]
                  preds == NeighbourPreds(run[r].station_preds, store, sid,
                                          cfg.forecast_date)
              IN  IF preds = <<>>
                  THEN Set(r, [run[r] EXCEPT !.k = @ + 1])
                  ELSE Set(r, [run[r] EXCEPT
                                 !.k = @ + 1,
                                 !.station_forecasts =
                                     Append(@, [preds |-> preds,
                                                weight |-> Weight(dist_km),
                                                sid |-> sid,
                                                dist_km |-> dist_km])])
    /\ UNCHANGED <<store, cfg, api_calls, call, knn>>

\* the candidates are collected: skip the gridpoint, or copy or merge
CollectDone(r) ==
    /\ run[r].pc = "collect"
    /\ run[r].k > Len(StationList(GridRows[run[r].g], cfg.neighbor_map))
    /\ IF run[r].station_forecasts = <<>>
       THEN Set(r, [run[r] EXCEPT !.pc = "grid", !.g = @ + 1, !.k = 0])
       ELSE Set(r, [run[r] EXCEPT
                      !.pc = "store_grid", !.j = 1, !.k = 0,
                      !.out = GridOut(GridRows[run[r].g],
                                      run[r].station_forecasts,
                                      cfg.forecast_date, cfg.data_date)])
    /\ UNCHANGED <<store, cfg, api_calls, call, knn>>

\* one store_prediction of the gridpoint loop
StoreGrid(r) ==
    /\ run[r].pc = "store_grid"
    /\ store' = Upsert(store, run[r].out[run[r].j])
    /\ IF run[r].j < Len(run[r].out)
       THEN Set(r, [run[r] EXCEPT !.j = @ + 1, !.stored_grid = @ + 1])
       ELSE Set(r, [run[r] EXCEPT !.j = 0, !.g = @ + 1, !.pc = "grid",
                                  !.stored_grid = @ + 1])
    /\ UNCHANGED <<cfg, api_calls, call, knn>>

\* the thread ends once no other run is under way
GridsDoneWhenJoined(r) ==
    /\ run[r].pc = "grid"
    /\ run[r].g > Len(GridRows)
    /\ \A q \in RunIds \ {r} : run[q].pc \notin Active
    /\ Set(r, [run[r] EXCEPT !.pc = "done"])
    /\ UNCHANGED <<store, cfg, api_calls, call, knn>>

\* the gridpoint loop is over: the final log line, and the thread ends
GridsDone(r) ==
    /\ run[r].pc = "grid"
    /\ run[r].g > Len(GridRows)
    /\ Set(r, [run[r] EXCEPT !.pc = "done"])
    /\ UNCHANGED <<store, cfg, api_calls, call, knn>>

\* an exception at the current step (a load, a fit, a predict, a store):
\* the statement has no effect and control goes to the except clause
Fail(r) ==
    /\ run[r].pc \in Active
    /\ Set(r, [run[r] EXCEPT !.pc = AfterException(@), !.raised = TRUE])
    /\ UNCHANGED <<store, cfg, api_calls, call, knn>>

\* the next statement of a run when nothing raises
NormalStep(r) ==
    \/ StationNext(r)
    \/ StoreStation(r)
    \/ StationsDone(r)
    \/ GridNext(r)
    \/ Collect(r)
    \/ CollectDone(r)
    \/ StoreGrid(r)
    \/ GridsDone(r)

RunStep(r) == NormalStep(r) \/ Fail(r)

----------------------------------------------------------------------------
(* POST /predict/store: api/routes.py predict_store *)

\* the request's optional source_id and horizon_hours go to store_prediction
\* as they are; tmin_c, tmax_c, delta_c, model_detail and confidence are left
\* at their default None
ApiRow(source_type, source_id, lat, lon, as_of, horizon_hours, tmean_c) ==
    MkRow(source_type, source_id, lat, lon, as_of, horizon_hours,
          [tmean_c |-> tmean_c, prcp_mm |-> R(0), model_name |-> "knn-distance",
           tmin_c |-> None, tmax_c |-> None, delta_c |-> None,
           model_detail |-> <<>>, confidence |-> None])

ApiSourceIds == {"s1", NullId}
ApiLats == {40, 42}
ApiHorizons == {0, 12, 24}
ApiValues == {R(1), R(2)}

predict_store ==
    /\ api_calls < MaxApiCalls
    /\ \E source_id \in ApiSourceIds, lat \in ApiLats,
          horizon_hours \in ApiHorizons, tmean_c \in ApiValues :
          store' = Upsert(store, ApiRow("station", source_id, lat, 10,
                                        cfg.forecast_date, horizon_hours, tmean_c))
    /\ api_calls' = api_calls + 1
    /\ UNCHANGED <<cfg, run, call, knn>>

----------------------------------------------------------------------------
(* Inputs of a run and initial states *)

Distances == {R(0), <<1, 4>>, R(1), R(4)}

StationLatLon(sid) == IF sid = "s1" THEN <<40, 10>> ELSE <<41, 11>>

Series(n, last_date, last7_mean) ==
    [n |-> n, last_date |-> last_date, last7_mean |-> last7_mean]

\* age of a stale series in days
StaleDays == 28

RECURSIVE UpsertAll(_, _)
UpsertAll(st, rows) ==
    IF rows = <<>> THEN st ELSE UpsertAll(Upsert(st, Head(rows)), Tail(rows))

\* the store_prediction calls of the station loop for one station
StationRows(sid, coords, preds) ==
    [n \in 1..Len(preds) |->
        MkRow("station", sid, coords[1], coords[2], preds[n].as_of,
              preds[n].horizon_hours, preds[n])]

\* the neighbour lists load_gridpoint_station_neighbors can return for a
\* gridpoint: ordered by distance, every distance known
NeighbourLists ==
    {<<<<sid, d>>>> : sid \in StationIds, d \in Distances}
    \cup {<<<<"s1", d[1]>>, <<"s2", d[2]>>>> :
             d \in {e \in Distances \X Distances : RLe(e[1], e[2])}}

\* status of a station: "ok", "nocoords" (no entry in station_coords),
\* "short" (fewer than MinRows cleaned rows) or "stale" (a series that ends
\* StaleDays before the forecast date instead of the day before)
MkCfg(enabled, gpr_enabled, status, temp1, neighbours, primary, prior2) ==
    LET forecast_date == 100
        base == [sid \in StationIds |-> IF sid = "s1" THEN 10 ELSE 20]
        series == [sid \in StationIds |->
                     Series(IF status[sid] = "short" THEN MinRows - 1 ELSE MinRows,
                            IF status[sid] = "stale"
                            THEN forecast_date - StaleDays ELSE forecast_date - 1,
                            R(base[sid]))]
    IN  [bootstrap_enabled |-> enabled,
         gpr_enabled       |-> gpr_enabled,
         bootstrap_station_limit |-> 0,
         bootstrap_grid_limit    |-> 0,
         forecast_date     |-> forecast_date,
         data_date         |-> forecast_date - 1,
         station_items     |-> <<"s1", "s2">>,
         series            |-> series,
         base              |-> base,
         station_coords    |-> [sid \in StationIds |->
                                  IF status[sid] = "nocoords" THEN <<>>
                                  ELSE StationLatLon(sid)],
         current_temp      |-> [sid \in StationIds |->
                                  IF sid = "s1" /\ temp1 THEN R(15) ELSE None],
         grid_rows         |-> <<<<"g1", 50, 20, primary>>,
                                 <<"g2", 51, 21, "s2">>>>,
         neighbor_map      |-> [gid \in GridIds |->
                                  IF gid = "g1" THEN neighbours ELSE <<>>],
         \* rows an earlier run of the same day stored for station s2
         prior             |->
            IF prior2
            THEN UpsertAll(<<>>,
                    StationRows("s2", StationLatLon("s2"),
                        predict_station_forecast(
                            Series(MinRows, forecast_date - 1, R(base["s2"])),
                            base["s2"], None, forecast_date, HorizonDays, TRUE)))
            ELSE <<>>]

Statuses == {"ok", "nocoords", "short", "stale"}

RunConfigs ==
    {MkCfg(TRUE, gpr, status, temp1, nl, "s1", prior2) :
        gpr \in BOOLEAN, status \in [StationIds -> Statuses],
        temp1 \in BOOLEAN, nl \in NeighbourLists, prior2 \in BOOLEAN}
    \cup
    {MkCfg(TRUE, gpr, status, FALSE, <<>>, primary, prior2) :
        gpr \in BOOLEAN, status \in [StationIds -> Statuses],
        primary \in StationIds \cup {NullId}, prior2 \in BOOLEAN}
    \cup
    {MkCfg(FALSE, TRUE, [sid \in StationIds |-> "ok"], FALSE, <<>>, "s1", FALSE)}

\* no predict call under way
NoCall == <<>>
\* the KNN model cache out of use
NoKnn == <<>>

InitWith(configs) ==
    /\ cfg \in configs
    /\ store = cfg.prior
    /\ run = [r \in RunIds |-> IdleRun]
    /\ api_calls = 0
    /\ call = NoCall
    /\ knn = NoKnn

\* one run of the orchestrator
InitRun == InitWith(RunConfigs)
NextRun == Begin(1) \/ RunStep(1)
SpecRun == InitRun /\ [][NextRun]_vars

\* the prediction table under requests that store single predictions
InitStore ==
    InitWith({MkCfg(FALSE, TRUE, [sid \in StationIds |-> "ok"], FALSE, <<>>,
                    "s1", FALSE)})
NextStore == predict_store
SpecStore == InitStore /\ [][NextStore]_vars

\* the startup run and a re-triggered run, in any interleaving
ConcConfigs ==
    {MkCfg(TRUE, gpr, [sid \in StationIds |-> IF sid = "s1" THEN "ok" ELSE status2],
           FALSE, nl, "s1", prior2) :
        gpr \in BOOLEAN, status2 \in {"ok", "nocoords"},
        nl \in {<<>>, <<<<"s1", R(1)>>, <<"s2", R(4)>>>>}, prior2 \in BOOLEAN}

InitConc == InitWith(ConcConfigs)
NextConc == \E r \in RunIds : Begin(r) \/ RunStep(r)
SpecConc == InitConc /\ [][NextConc]_vars

\* a run, and once it has completed a second run over the same inputs
Again == run[1].pc = "done" /\ Begin(2)
NextAgain == Begin(1) \/ RunStep(1) \/ Again \/ RunStep(2)
SpecAgain == InitRun /\ [][NextAgain]_vars

\* one call of a variant's predict for one day, the outputs of the fitted
\* regressors, the current temperature and the age of the series drawn freely
RawTemps == {R(-3), R(0), <<5, 2>>, R(4)}
RawPrcps == {R(-1), R(2)}
Uncertainties == {R(0), R(3), R(10), R(30)}
CurrentTemps == {None, NaN, Inf, R(15), R(5)}
Gaps == {-2, 0, 1, 15, 26, 27, 28, 45}
PointCalls ==
    [m : {Gpr, RidgeV1, RidgeSeasonalV2}, h : 0..(HorizonDays - 1),
     raw_tmin : RawTemps, raw_tmax : RawTemps, raw_prcp : RawPrcps,
     uncertainty : Uncertainties, current_temp_c : CurrentTemps,
     last7_mean : {R(10)}, as_of_date : {100}, gap : Gaps,
     confidence : {None}, out : {<<>>}]

\* the series of a call: its last date is gap days before as_of_date
CallSeries(c) == Series(MinRows, c.as_of_date - c.gap, c.last7_mean)

predict ==
    /\ call # NoCall
    /\ call.out = <<>>
    /\ LET confidence == _base_confidence(CallSeries(call), call.as_of_date,
                                          call.current_temp_c)
       IN  call' = [call EXCEPT
                      !.confidence = confidence,
                      !.out = <<ForecastPoint(call.m, call.as_of_date, call.h,
                                              call.raw_tmin, call.raw_tmax,
                                              call.raw_prcp, call.uncertainty,
                                              call.current_temp_c,
                                              call.last7_mean, confidence)>>]
    /\ UNCHANGED <<store, cfg, run, api_calls, knn>>

InitPoint ==
    /\ cfg = MkCfg(FALSE, TRUE, [sid \in StationIds |-> "ok"], FALSE, <<>>,
                   "s1", FALSE)
    /\ store = <<>>
    /\ run = [r \in RunIds |-> IdleRun]
    /\ api_calls = 0
    /\ call \in PointCalls
    /\ knn = NoKnn
NextPoint == predict
SpecPoint == InitPoint /\ [][NextPoint]_vars

\* one run in which no statement raises; the thread keeps being scheduled
QuietConfigs ==
    {MkCfg(TRUE, TRUE, status, temp1, nl, "s1", prior2) :
        status \in [StationIds -> {"ok", "nocoords"}], temp1 \in BOOLEAN,
        nl \in {<<>>, <<<<"s1", R(1)>>, <<"s2", R(4)>>>>}, prior2 \in BOOLEAN}

InitQuiet == InitWith(QuietConfigs)
NextQuiet == Begin(1) \/ NormalStep(1)
SpecQuiet == InitQuiet /\ [][NextQuiet]_vars /\ WF_vars(NormalStep(1))

\* two runs in any interleaving, each thread scheduled again and again; an
\* exception may occur at any statement and need not
FairConfigs ==
    {MkCfg(TRUE, FALSE, [sid \in StationIds |-> IF sid = "s1" THEN "ok" ELSE "nocoords"],
           FALSE, nl, "s1", prior2) :
        nl \in {<<>>, <<<<"s1", R(1)>>, <<"s2", R(4)>>>>}, prior2 \in {TRUE}}

InitFair == InitWith(FairConfigs)
SpecFair ==
    InitFair /\ [][NextConc]_vars /\ \A r \in RunIds : WF_vars(NormalStep(r))

\* StationSeries (ml/models/series.py). A raw row is
\* <<date, tmax, tmin, prcp>>, each None when the column is NULL; a date
\* that is not NULL is <<day>>.
MaxLen == 6
MaxPoints == 4

\* the rows in the order given
InOrder(rows) == rows

\* cleaned.sort(key=lambda r: r[0]): ascending by date, rows of equal date
\* in their former order
RECURSIVE SortByDate(_)
SortByDate(rows) ==
    IF rows = <<>> THEN <<>>
    ELSE LET r == rows[Len(rows)]
             sorted == SortByDate(SubSeq(rows, 1, Len(rows) - 1))
             k == Cardinality({n \in 1..Len(sorted) : sorted[n][1][1] <= r[1][1]})
         IN  SubSeq(sorted, 1, k) \o <<r>> \o SubSeq(sorted, k + 1, Len(sorted))

\* [r for r in rows if r[0] is not None and r[1] is not None and r[2] is not None]
Cleaned(rows) ==
    LET Test(r) == r[1] # None /\ r[2] # None /\ r[3] # None
    IN  SelectSeq(rows, Test)

\* StationSeries.from_rows; None when there are fewer than min_rows rows
from_rows(rows, min_rows) ==
    IF Len(Cleaned(rows)) < min_rows THEN None
    ELSE LET cleaned == SortByDate(Cleaned(rows))
             tmax == [n \in 1..Len(cleaned) |-> cleaned[n][2]]
             tmin == [n \in 1..Len(cleaned) |-> cleaned[n][3]]
         IN  [dates     |-> [n \in 1..Len(cleaned) |-> cleaned[n][1][1]],
              tmin_c    |-> tmin,
              tmax_c    |-> tmax,
              prcp_mm   |-> [n \in 1..Len(cleaned) |->
                               IF cleaned[n][4] # None THEN cleaned[n][4]
                               ELSE R(0)],
              tmean_c   |-> [n \in 1..Len(cleaned) |->
                               RDiv(RAdd(tmax[n], tmin[n]), R(2))],
              last_date |-> cleaned[Len(cleaned)][1][1]]

\* np.linspace(0, stop, num).astype(int): num evenly spaced values from 0,
\* the last one set to stop when num > 1, each truncated to an integer
Linspace(stop, num) ==
    [i \in 1..num |->
        IF num = 1 THEN 0
        ELSE IF i = num THEN stop
        ELSE ((i - 1) * stop) \div (num - 1)]

\* StationSeries.downsample
downsample(series, max_points) ==
    IF Len(series.dates) <= max_points THEN series
    ELSE LET idx == Linspace(Len(series.dates) - 1, max_points)
         IN  [dates     |-> [k \in 1..Len(idx) |-> series.dates[idx[k] + 1]],
              tmin_c    |-> [k \in 1..Len(idx) |-> series.tmin_c[idx[k] + 1]],
              tmax_c    |-> [k \in 1..Len(idx) |-> series.tmax_c[idx[k] + 1]],
              prcp_mm   |-> [k \in 1..Len(idx) |-> series.prcp_mm[idx[k] + 1]],
              tmean_c   |-> [k \in 1..Len(idx) |-> series.tmean_c[idx[k] + 1]],
              last_date |-> series.last_date]

\* the raw rows of the calls: every pattern of NULLs in lists of up to two
\* rows, and longer lists out of date order with some NULLs
RawRows ==
    {<<d, tx, tn, p>> : d \in {None, <<1>>, <<2>>}, tx \in {None, R(12)},
                        tn \in {None, R(3)}, p \in {None, R(5)}}
LongRows(n, gaps) ==
    [i \in 1..n |->
        <<IF i % 2 = 1 THEN <<i + 1>> ELSE <<i - 1>>,
          IF gaps /\ i = 2 THEN None ELSE R(10 + i),
          R(i),
          IF i % 3 = 0 THEN None ELSE R(i)>>]
RowLists ==
    {<<>>} \cup {<<a>> : a \in RawRows} \cup {<<a, b>> : a, b \in RawRows}
    \cup {LongRows(n, gaps) : n \in 3..MaxLen, gaps \in BOOLEAN}

SeriesCalls ==
    [op : {"rows"}, rows : RowLists, min_rows : 1..3, series : {None},
     max_points : {0}, out : {None}]

\* series = StationSeries.from_rows(rows, min_rows)
FromRows ==
    /\ call # NoCall
    /\ call.op = "rows"
    /\ call' = [call EXCEPT !.op = "series",
                            !.series = from_rows(call.rows, call.min_rows)]
    /\ UNCHANGED <<store, cfg, run, api_calls, knn>>

\* series.downsample(max_points), as GprForecastModel.fit calls it
Downsample ==
    /\ call # NoCall
    /\ call.op = "series"
    /\ call.series # None
    /\ \E max_points \in 1..MaxPoints :
          call' = [call EXCEPT !.op = "down",
                              !.max_points = max_points,
                              !.out = downsample(call.series, max_points)]
    /\ UNCHANGED <<store, cfg, run, api_calls, knn>>

InitSeries ==
    /\ cfg = MkCfg(FALSE, TRUE, [sid \in StationIds |-> "ok"], FALSE, <<>>,
                   "s1", FALSE)
    /\ store = <<>>
    /\ run = [r \in RunIds |-> IdleRun]
    /\ api_calls = 0
    /\ call \in SeriesCalls
    /\ knn = NoKnn
NextSeries == FromRows \/ Downsample
SpecSeries == InitSeries /\ [][NextSeries]_vars

\* The KNN model cache (ml/knn.py): _MODEL_CACHE, _MODEL_LOCK, the joblib
\* files of model_cache_dir, and the threads calling get_or_train. A key is
\* <<as_of, neighbors>>; a file path is determined by such a pair too.
Threads == {1, 2, 3}
Keys == {<<1, 3>>, <<1, 5>>}
\* len(X) of the training rows of a day when there are any
TrainRows == {3, 7}

\* the payload train_model returns: n_neighbors = max(min(neighbors, len(X)), 1)
Trained(key, rows, model) ==
    [date      |-> key[1],
     neighbors |-> IF key[2] < rows THEN key[2] ELSE IF rows > 1 THEN rows ELSE 1,
     model     |-> model,
     rows      |-> rows]

\* _load_cached_model: the payload of the key's file when the file exists,
\* loads, and holds the key's date and neighbors
_load_cached_model(disk, key, readable) ==
    IF disk[key] = None \/ ~readable THEN None
    ELSE IF disk[key].date # key[1] \/ disk[key].neighbors # key[2] THEN None
    ELSE disk[key]

IdleThread == [pc |-> "idle", key |-> <<>>, result |-> None]

\* a thread calls get_or_train(settings, as_of, neighbors)
KnnCall(c) ==
    /\ knn # NoKnn
    /\ knn.th[c].pc = "idle"
    /\ \E key \in Keys :
          knn' = [knn EXCEPT !.th[c] = [pc |-> "wait", key |-> key, result |-> None]]
    /\ UNCHANGED <<store, cfg, run, api_calls, call>>

\* the with statement entered whoever holds the lock
KnnAcquireUnlocked(c) ==
    /\ knn # NoKnn
    /\ knn.th[c].pc = "wait"
    /\ knn' = [knn EXCEPT !.lock = c, !.th[c].pc = "locked"]
    /\ UNCHANGED <<store, cfg, run, api_calls, call>>

\* with _MODEL_LOCK: the thread enters when no thread holds the lock
KnnAcquire(c) ==
    /\ knn # NoKnn
    /\ knn.th[c].pc = "wait"
    /\ knn.lock = 0
    /\ knn' = [knn EXCEPT !.lock = c, !.th[c].pc = "locked"]
    /\ UNCHANGED <<store, cfg, run, api_calls, call>>

\* cached = _MODEL_CACHE.get(key), then _load_cached_model: return the
\* cached model, or cache and return the one on disk, or go on to train
KnnLookup(c) ==
    /\ knn # NoKnn
    /\ knn.th[c].pc = "locked"
    /\ LET key == knn.th[c].key
       IN  IF knn.cache[key] # None
           THEN knn' = [knn EXCEPT !.th[c].pc = "done",
                                  !.th[c].result = knn.cache[key],
                                  !.lock = IF @ = c THEN 0 ELSE @]
           ELSE \E readable \in BOOLEAN :
                  LET disk_cached == _load_cached_model(knn.disk, key, readable)
                  IN  IF disk_cached # None
                      THEN knn' = [knn EXCEPT !.cache[key] = disk_cached,
                                             !.th[c].pc = "done",
                                             !.th[c].result = disk_cached,
                                             !.lock = IF @ = c THEN 0 ELSE @]
                      ELSE knn' = [knn EXCEPT !.th[c].pc = "train"]
    /\ UNCHANGED <<store, cfg, run, api_calls, call>>

\* trained = train_model(...): no rows for the day and None is returned
\* with nothing cached, or the query raises, or a model is fitted
KnnTrain(c) ==
    /\ knn # NoKnn
    /\ knn.th[c].pc = "train"
    /\ LET key == knn.th[c].key
       IN  \/ knn' = [knn EXCEPT !.th[c].pc = "done",
                                 !.th[c].result = None,
                                 !.lock = IF @ = c THEN 0 ELSE @]
           \/ knn' = [knn EXCEPT !.th[c].pc = "raised",
                                 !.lock = IF @ = c THEN 0 ELSE @]
           \/ \E rows \in TrainRows :
                 knn' = [knn EXCEPT
                           !.th[c].pc = "store",
                           !.th[c].result = Trained(key, rows, knn.next_model),
                           !.next_model = @ + 1,
                           !.trained[key] = @ + 1]
    /\ UNCHANGED <<store, cfg, run, api_calls, call>>

\* _MODEL_CACHE[key] = trained; _save_cached_model (a failure to write is
\* logged and ignored; the file is named after the payload); return trained
KnnStore(c) ==
    /\ knn # NoKnn
    /\ knn.th[c].pc = "store"
    /\ LET key == knn.th[c].key
           trained == knn.th[c].result
           path == <<trained.date, trained.neighbors>>
       IN  \E saved \in BOOLEAN :
             knn' = [knn EXCEPT
                       !.cache[key] = trained,
                       !.disk = IF saved /\ path \in DOMAIN knn.disk
                                THEN [@ EXCEPT ![path] = trained] ELSE @,
                       !.th[c].pc = "done",
                       !.lock = IF @ = c THEN 0 ELSE @]
    /\ UNCHANGED <<store, cfg, run, api_calls, call>>

\* the process starts with an empty cache; model_cache_dir may hold the
\* file of a model an earlier process trained
KnnDisks ==
    {[key \in Keys |-> None]}
    \cup {[key \in Keys |-> IF key = k THEN Trained(k, 7, 0) ELSE None] : k \in Keys}

InitKnn ==
    /\ cfg = MkCfg(FALSE, TRUE, [sid \in StationIds |-> "ok"], FALSE, <<>>,
                   "s1", FALSE)
    /\ store = <<>>
    /\ run = [r \in RunIds |-> IdleRun]
    /\ api_calls = 0
    /\ call = NoCall
    /\ \E disk \in KnnDisks :
          knn = [cache      |-> [key \in Keys |-> None],
                 disk       |-> disk,
                 lock       |-> 0,
                 th         |-> [c \in Threads |-> IdleThread],
                 trained    |-> [key \in Keys |-> 0],
                 next_model |-> 1]
NextKnn ==
    \E c \in Threads :
        KnnCall(c) \/ KnnAcquire(c) \/ KnnLookup(c) \/ KnnTrain(c) \/ KnnStore(c)
SpecKnn == InitKnn /\ [][NextKnn]_vars

\* one run under each setting of the two limits
Limits == {-1, 0, 1, 2, 3}
CapConfigs ==
    {[MkCfg(TRUE, FALSE, [sid \in StationIds |-> "ok"], FALSE,
            <<<<"s1", R(1)>>, <<"s2", R(4)>>>>, "s1", TRUE)
        EXCEPT !.bootstrap_station_limit = sl, !.bootstrap_grid_limit = gl] :
        sl \in Limits, gl \in Limits}

InitCap == InitWith(CapConfigs)
SpecCap == InitCap /\ [][NextRun]_vars

Spec == SpecRun

----------------------------------------------------------------------------
(* Properties of the prediction table *)

\* C1: after any sequence of upserts the table holds at most one row per key
\* (source_type, source_id, lat, lon, as_of_date, horizon_hours).
C1_OneRowPerKey ==
    \A a, b \in DOMAIN store :
        KeyOf(store[a]) = KeyOf(store[b]) => a = b

\* the rows stored for a source and as_of date
SourceRows(st, source_type, source_id, as_of_date) ==
    {a \in DOMAIN st :
        /\ st[a].source_type = source_type
        /\ st[a].source_id = source_id
        /\ st[a].as_of_date = as_of_date}

\* C2: when a run has ended without failing, the table holds one row per
\* (model_name, horizon_hours) pair for every station the run generated a
\* forecast for: N x horizon_days rows with N the number of variants.
C2_EveryVariantRetained ==
    \A r \in RunIds : \A sid \in StationIds :
        (run[r].pc = "done" /\ run[r].station_preds[sid] # <<>>) =>
            LET rows == SourceRows(store, "station", sid, cfg.forecast_date)
                variants == ModelVariants(cfg.gpr_enabled)
            IN  /\ Cardinality(rows) = Len(variants) * HorizonDays
                /\ \A v \in 1..Len(variants) : \A h \in 0..(HorizonDays - 1) :
                      \E a \in rows : /\ store[a].model_name = variants[v].name
                                      /\ store[a].horizon_hours = 24 * h

\* C3: forecast_exists is true exactly when every whole-day slot of
\* [0, days) has a stored row for the source and as_of date.
C3_ExistsIffEverySlot ==
    \A days \in 1..HorizonDays :
        forecast_exists(store, "station", "s1", cfg.forecast_date, days)
        <=> \A h \in 0..(days - 1) :
                \E a \in SourceRows(store, "station", "s1", cfg.forecast_date) :
                    store[a].horizon_hours = 24 * h

----------------------------------------------------------------------------
(* Properties of gridpoint propagation *)

MergedFields ==
    {"tmin_c", "tmax_c", "tmean_c", "prcp_mm", "delta_c", "confidence"}

\* the points of a contributing station that fall in a bucket
PointsIn(sf, model_name, horizon_hours) ==
    {n \in 1..Len(sf.preds) :
        /\ BucketModel(sf.preds[n]) = model_name
        /\ BucketHorizon(sf.preds[n]) = horizon_hours}

\* sum of the weights of the stations with a point in the bucket
RECURSIVE BucketWeight(_, _, _)
BucketWeight(sfs, model_name, horizon_hours) ==
    IF sfs = <<>> THEN R(0)
    ELSE RAdd(IF PointsIn(Head(sfs), model_name, horizon_hours) # {}
              THEN Head(sfs).weight ELSE R(0),
              BucketWeight(Tail(sfs), model_name, horizon_hours))

\* sum of weight x value over the stations with a point in the bucket
RECURSIVE BucketSum(_, _, _, _)
BucketSum(sfs, model_name, horizon_hours, field) ==
    IF sfs = <<>> THEN R(0)
    ELSE LET pts == PointsIn(Head(sfs), model_name, horizon_hours)
             p == Head(sfs).preds[CHOOSE n \in pts : TRUE]
         IN  RAdd(IF pts # {} THEN RMul(p[field], Head(sfs).weight) ELSE R(0),
                  BucketSum(Tail(sfs), model_name, horizon_hours, field))

\* a run is about to store the rows merged from two or more stations
Merging(r) ==
    run[r].pc = "store_grid" /\ Len(run[r].station_forecasts) >= 2

\* C4: with two or more contributing stations each merged field of a bucket
\* is the weighted sum over the bucket's points divided by the sum of the
\* weights of the stations that have a point in that bucket.
C4_DividesByBucketWeight ==
    \A r \in RunIds :
        Merging(r) =>
            \A n \in 1..Len(run[r].out) : \A field \in MergedFields :
                LET row == run[r].out[n]
                    sfs == run[r].station_forecasts
                IN  row[field] =
                        RDiv(BucketSum(sfs, row.model_name, row.horizon_hours, field),
                             BucketWeight(sfs, row.model_name, row.horizon_hours))

\* every contributing station has a point in the bucket of `row`
FullBucket(sfs, row) ==
    \A m \in 1..Len(sfs) :
        PointsIn(sfs[m], row.model_name, row.horizon_hours) # {}

RECURSIVE AllWeights(_)
AllWeights(sfs) ==
    IF sfs = <<>> THEN R(0) ELSE RAdd(Head(sfs).weight, AllWeights(Tail(sfs)))

\* C5: when every contributing station has a point in the bucket, each merged
\* field is the sum of weight x value over the stations divided by the sum
\* of their weights; stations at 1 km and 4 km have weights 1 and 1/4, so
\* that values 10 and 20 merge to 12.
C5_WeightedMeanOfFullBucket ==
    \A r \in RunIds :
        Merging(r) =>
            LET sfs == run[r].station_forecasts
            IN  /\ \A n \in 1..Len(run[r].out) : \A field \in MergedFields :
                      LET row == run[r].out[n]
                      IN  FullBucket(sfs, row) =>
                            row[field] =
                                RDiv(BucketSum(sfs, row.model_name,
                                               row.horizon_hours, field),
                                     AllWeights(sfs))
                /\ \A m \in 1..Len(sfs) :
                      /\ sfs[m].dist_km = R(1) => sfs[m].weight = R(1)
                      /\ sfs[m].dist_km = R(4) => sfs[m].weight = <<1, 4>>

\* the example of C5: stations at 1 km and 4 km with tmean_c 10 and 20 in a
\* bucket, and the merged row of that bucket has tmean_c 12
C5_Witness ==
    \E r \in RunIds :
        /\ Merging(r)
        /\ Len(run[r].station_forecasts) = 2
        /\ run[r].station_forecasts[1].dist_km = R(1)
        /\ run[r].station_forecasts[2].dist_km = R(4)
        /\ \E n \in 1..Len(run[r].out) :
              LET row == run[r].out[n]
                  sfs == run[r].station_forecasts
              IN  /\ FullBucket(sfs, row)
                  /\ \E a \in PointsIn(sfs[1], row.model_name, row.horizon_hours) :
                        sfs[1].preds[a].tmean_c = R(10)
                  /\ \E b \in PointsIn(sfs[2], row.model_name, row.horizon_hours) :
                        sfs[2].preds[b].tmean_c = R(20)
                  /\ row.tmean_c = R(12)

\* C6: the weight of a contributing station is 1 / max(0.5, distance_km) for
\* every known distance, 0 included, and 1 only when the distance is unknown.
C6_WeightOfKnownDistance ==
    \A r \in RunIds : \A m \in 1..Len(run[r].station_forecasts) :
        LET sf == run[r].station_forecasts[m]
        IN  IF sf.dist_km = None
            THEN sf.weight = R(1)
            ELSE sf.weight = RDiv(R(1), RMax(<<1, 2>>, sf.dist_km))

\* a run is about to store the rows copied from its only contributing station
Copying(r) ==
    run[r].pc = "store_grid" /\ Len(run[r].station_forecasts) = 1

\* C7: with exactly one contributing station the run writes one gridpoint
\* row per point of that station's forecast, equal to the point in every
\* field but source_type, source_id, lat and lon, which are the gridpoint's.
C7_SingleStationCopied ==
    \A r \in RunIds :
        Copying(r) =>
            LET sf == run[r].station_forecasts[1]
                grid_row == cfg.grid_rows[run[r].g]
            IN  /\ Len(run[r].out) = Len(sf.preds)
                /\ run[r].station_preds[sf.sid] # <<>> =>
                      sf.preds = StationPreds(sf.sid)
                /\ \A n \in 1..Len(sf.preds) :
                      LET row == run[r].out[n]
                          p == sf.preds[n]
                      IN  /\ row.source_type = "gridpoint"
                          /\ row.source_id = grid_row[1]
                          /\ row.lat = grid_row[2]
                          /\ row.lon = grid_row[3]
                          /\ row.as_of_date = p.as_of
                          /\ row.horizon_hours = p.horizon_hours
                          /\ row.tmin_c = p.tmin_c
                          /\ row.tmax_c = p.tmax_c
                          /\ row.tmean_c = p.tmean_c
                          /\ row.prcp_mm = p.prcp_mm
                          /\ row.delta_c = p.delta_c
                          /\ row.model_name = p.model_name
                          /\ row.model_detail = p.model_detail
                          /\ row.confidence = p.confidence
                \* the row written last is stored as written
                /\ run[r].j > 1 =>
                      \E a \in DOMAIN store : store[a] = run[r].out[run[r].j - 1]

\* a copy of a forecast generated in this run is under way and has written
C7_Witness ==
    \E r \in RunIds :
        /\ Copying(r)
        /\ run[r].j > 1
        /\ run[r].station_preds[run[r].station_forecasts[1].sid] # <<>>

----------------------------------------------------------------------------
(* Failure of a run *)

\* C10: an exception at any step ends the run there: the step and every
\* later step of the run leave the table as it is, and the run is in the
\* state after the except clause (the exception does not leave the function).
C10_FailureStopsRun ==
    [][\A r \in RunIds :
          /\ (~run[r].raised /\ run'[r].raised) =>
                (store' = store /\ run'[r].pc = "failed")
          /\ run[r].raised =>
                (run'[r] = run[r] /\ (\A q \in RunIds \ {r} : run'[q] = run[q]
                                        => store' = store))]_vars

\* a run has failed after it had stored rows
C10_Witness ==
    \E r \in RunIds :
        /\ run[r].pc = "failed"
        /\ run[r].stored_station > 0
        /\ run[r].stored_grid > 0

----------------------------------------------------------------------------
(* Repeated and concurrent runs *)

\* the same rows, whatever their ids
SameRows(st1, st2) ==
    /\ Len(st1) = Len(st2)
    /\ {st1[a] : a \in DOMAIN st1} = {st2[a] : a \in DOMAIN st2}

\* the table and the in-memory forecasts after the station loop of a run
\* that nothing interrupts, from station i on
RECURSIVE AloneStations(_, _, _)
AloneStations(st, station_preds, i) ==
    IF i > Len(cfg.station_items)
    THEN [st |-> st, station_preds |-> station_preds]
    ELSE LET sid == cfg.station_items[i]
             coords == cfg.station_coords[sid]
             preds == StationPreds(sid)
         IN  IF coords = <<>> \/ preds = <<>>
             THEN AloneStations(st, station_preds, i + 1)
             ELSE AloneStations(UpsertAll(st, StationRows(sid, coords, preds)),
                                [station_preds EXCEPT ![sid] = preds], i + 1)

RECURSIVE AloneCollect(_, _, _, _)
AloneCollect(st, station_preds, station_list, k) ==
    IF k > Len(station_list) THEN <<>>
    ELSE LET preds == NeighbourPreds(station_preds, st, station_list[k][1],
                                     cfg.forecast_date)
             rest == AloneCollect(st, station_preds, station_list, k + 1)
         IN  IF preds = <<>> THEN rest
             ELSE <<[preds |-> preds, weight |-> Weight(station_list[k][2]),
                     sid |-> station_list[k][1],
                     dist_km |-> station_list[k][2]]>> \o rest

RECURSIVE AloneGrids(_, _, _)
AloneGrids(st, station_preds, g) ==
    IF g > Len(cfg.grid_rows) THEN st
    ELSE LET station_list == StationList(cfg.grid_rows[g], cfg.neighbor_map)
             sfs == AloneCollect(st, station_preds, station_list, 1)
         IN  AloneGrids(UpsertAll(st, GridOut(cfg.grid_rows[g], sfs,
                                              cfg.forecast_date, cfg.data_date)),
                        station_preds, g + 1)

\* the table one complete run leaves when it runs alone on the initial table
RunAlone ==
    IF ~cfg.bootstrap_enabled THEN cfg.prior
    ELSE LET s == AloneStations(cfg.prior, IdleRun.station_preds, 1)
         IN  AloneGrids(s.st, s.station_preds, 1)

\* C8: when two runs over the same inputs have both run to their end, in
\* any interleaving of their reads and upserts, the table holds the rows
\* that one run alone leaves.
C8_ConcurrentRunsAsOne ==
    (\A r \in RunIds : run[r].pc = "done") => SameRows(store, RunAlone)

\* both runs have completed and their steps were interleaved
C8_Witness ==
    /\ \A r \in RunIds : run[r].pc = "done" /\ ~run[r].after
    /\ \A r \in RunIds : run[r].stored_grid > 0
    /\ store # cfg.prior

\* C9: a run started after another run over the same inputs has completed
\* leaves, when it completes, the rows it found.
C9_SecondRunChangesNothing ==
    \A r \in RunIds :
        (run[r].pc = "done" /\ run[r].after) => SameRows(store, run[r].seen)

\* a second run has completed after storing station and gridpoint rows
C9_Witness ==
    \E r \in RunIds :
        /\ run[r].pc = "done"
        /\ run[r].after
        /\ run[r].stored_station > 0
        /\ run[r].stored_grid > 0

----------------------------------------------------------------------------
(* Stations without a usable series *)

\* the station a run is about to forecast has fewer than min_rows cleaned rows
AtShortStation(r) ==
    /\ run[r].pc = "station"
    /\ run[r].i <= Len(cfg.station_items)
    /\ cfg.series[cfg.station_items[run[r].i]].n < MinRows

\* C11: for a station with fewer than min_rows cleaned rows no point is
\* produced and no row is written: the step of the run at that station
\* leaves the table and the in-memory forecasts as they are and takes the
\* run to the next station, unless an exception ends the run there (C10).
C11_ShortSeriesSkipped ==
    [][\A r \in RunIds :
          /\ (AtShortStation(r) /\ run'[r] # run[r] /\ ~run'[r].raised) =>
                /\ store' = store
                /\ run'[r].pc = "station"
                /\ run'[r].i = run[r].i + 1
                /\ run'[r].station_preds = run[r].station_preds
                /\ run'[r].stored_station = run[r].stored_station
          /\ \A sid \in StationIds :
                cfg.series[sid].n < MinRows =>
                    /\ run'[r].station_preds[sid] = <<>>
                    /\ \A a \in DOMAIN store' :
                          (store'[a].source_type = "station"
                              /\ store'[a].source_id = sid)
                          => \E b \in DOMAIN cfg.prior : cfg.prior[b] = store'[a]]_vars

\* a run that skipped a short first station, stored the rows of the next
\* station and completed
C11_Witness ==
    \E r \in RunIds :
        /\ run[r].pc = "done"
        /\ cfg.series["s1"].n < MinRows
        /\ cfg.station_coords["s1"] # <<>>
        /\ run[r].stored_station > 0

----------------------------------------------------------------------------
(* Properties of the points a variant produces *)

\* the point a call has produced
Produced == call # NoCall /\ call.out # <<>>

\* C12: every produced point has tmin_c <= tmax_c, whatever the regressors
\* gave and whatever the bias.
C12_TminAtMostTmax ==
    Produced => RLe(call.out[1].tmin_c, call.out[1].tmax_c)

\* a point produced from regressor outputs that cross, with a bias applied
C12_Witness ==
    /\ Produced
    /\ RLt(call.raw_tmax, call.raw_tmin)
    /\ call.current_temp_c = R(15)
    /\ RLt(call.out[1].tmin_c, call.out[1].tmax_c)

\* C13: every produced point has confidence in [0.1, 1.0], for every gap
\* between the last truth date and as_of_date, with or without a current
\* temperature, and for every non-negative uncertainty of the model.
C13_ConfidenceInRange ==
    Produced =>
        /\ RLe(<<1, 10>>, call.out[1].confidence)
        /\ RLe(call.out[1].confidence, R(1))

\* a point of a stale series with a large model uncertainty: the discount
\* exceeds the base confidence and the floor applies
C13_Witness ==
    /\ Produced
    /\ call.gap = 45
    /\ call.current_temp_c = R(15)
    /\ call.uncertainty = R(30)
    /\ call.out[1].confidence = <<1, 10>>

----------------------------------------------------------------------------
(* Properties of merged gridpoint rows *)

\* every point of every contributing station has confidence in [0.1, 1.0]
ContributorsInRange(sfs) ==
    \A m \in 1..Len(sfs) : \A n \in 1..Len(sfs[m].preds) :
        /\ sfs[m].preds[n].confidence # None
        /\ RLe(<<1, 10>>, sfs[m].preds[n].confidence)
        /\ RLe(sfs[m].preds[n].confidence, R(1))

\* C14: a row merged from two or more stations has confidence in
\* [0.1, 1.0] when every contributing point has, whichever stations have a
\* point in the row's bucket.
C14_MergedConfidenceInRange ==
    \A r \in RunIds :
        (Merging(r) /\ ContributorsInRange(run[r].station_forecasts)) =>
            \A n \in 1..Len(run[r].out) :
                /\ RLe(<<1, 10>>, run[r].out[n].confidence)
                /\ RLe(run[r].out[n].confidence, R(1))

----------------------------------------------------------------------------
(* Shape of a station forecast *)

\* the positions of the points of a variant in a forecast
PointsOfVariant(preds, model_name) ==
    {n \in 1..Len(preds) : preds[n].model_name = model_name}

\* C15: the forecast of a station with a valid series has N x D points for
\* N enabled variants and D = horizon_days, and the points of each variant
\* have the horizons 0, 24, .., (D - 1) * 24, each once, with
\* date = as_of + horizon_hours / 24 days.
C15_PointsPerVariantAndDay ==
    \A r \in RunIds : \A sid \in StationIds :
        LET preds == run[r].station_preds[sid]
            names == {"ridge-v1", "ridge-seasonal-v2"}
                     \cup (IF cfg.gpr_enabled THEN {"gpr-v1"} ELSE {})
        IN  preds # <<>> =>
              /\ Len(preds) = Cardinality(names) * HorizonDays
              /\ \A n \in 1..Len(preds) :
                    /\ preds[n].model_name \in names
                    /\ preds[n].as_of = cfg.forecast_date
                    /\ preds[n].date * 24 = preds[n].as_of * 24 + preds[n].horizon_hours
              /\ \A name \in names : \A h \in 0..(HorizonDays - 1) :
                    Cardinality({n \in PointsOfVariant(preds, name) :
                                    preds[n].horizon_hours = 24 * h}) = 1

\* a run holds the forecast of a station made with the three variants
C15_Witness ==
    \E r \in RunIds :
        /\ cfg.gpr_enabled
        /\ Len(run[r].station_preds["s1"]) = 3 * HorizonDays
        /\ run[r].pc = "store_station"

----------------------------------------------------------------------------
(* Bias and base confidence *)

\* the bias the claim states for a call
StatedBias(c) ==
    IF c.current_temp_c # None /\ c.current_temp_c # NaN /\ c.current_temp_c # Inf
    THEN RMul(RSub(c.current_temp_c, c.last7_mean),
              IF c.m.name = "gpr-v1" THEN <<3, 5>> ELSE <<2, 5>>)
    ELSE R(0)

\* C16: with a finite current temperature a variant adds
\* (current_temp_c - last7_mean) x weight, weight 0.6 for gpr and 0.4 for
\* ridge, to both temperatures, and 0 without one; tmean_c is then the mean
\* of tmin_c and tmax_c and delta_c their difference.
C16_BiasOnBothTemperatures ==
    Produced =>
        LET p == call.out[1]
            lo == RAdd(call.raw_tmin, StatedBias(call))
            hi == RAdd(call.raw_tmax, StatedBias(call))
        IN  /\ {p.tmin_c, p.tmax_c} = {lo, hi}
            /\ p.tmean_c = RDiv(RAdd(p.tmin_c, p.tmax_c), R(2))
            /\ p.delta_c = RSub(p.tmax_c, p.tmin_c)

\* a gpr point and a ridge point with current temperature 15 and a
\* seven-day mean of 10: the bias is 3 for gpr and 2 for ridge
C16_Witness ==
    /\ Produced
    /\ call.current_temp_c = R(15)
    /\ call.raw_tmin = R(0)
    /\ call.raw_tmax = R(4)
    /\ \/ call.m.name = "gpr-v1" /\ call.out[1].tmin_c = R(3)
                                  /\ call.out[1].tmax_c = R(7)
       \/ call.m.name = "ridge-v1" /\ call.out[1].tmin_c = R(2)
                                    /\ call.out[1].tmax_c = R(6)

\* the days from the series' last date to as_of_date, at least 0
DaysSinceTruth(c) == IF c.gap > 0 THEN c.gap ELSE 0

\* a finite current temperature is given
Observed(c) ==
    c.current_temp_c # None /\ c.current_temp_c # NaN /\ c.current_temp_c # Inf

\* C17: the base confidence is max(0.1, 1 - d/30) for d days since the last
\* truth; a finite current temperature adds 0.1, clamped to [0.1, 1.0]; it
\* does not increase with d, and is 0.1 from d = 27 on without observation.
C17_BaseConfidence ==
    Produced =>
        LET recency == RMax(<<1, 10>>,
                            RSub(R(1), Norm(DaysSinceTruth(call), 30)))
        IN  /\ call.confidence =
                  IF Observed(call)
                  THEN RMax(<<1, 10>>, RMin(R(1), RAdd(recency, <<1, 10>>)))
                  ELSE recency
            /\ \A g \in Gaps :
                  g >= call.gap =>
                      RLe(_base_confidence(Series(MinRows, call.as_of_date - g,
                                                  call.last7_mean),
                                           call.as_of_date, call.current_temp_c),
                          call.confidence)
            /\ (~Observed(call) /\ call.gap >= 27) => call.confidence = <<1, 10>>

\* a call with a series that ended 27 days ago and no observation: 0.1
C17_Witness ==
    /\ Produced
    /\ call.gap = 27
    /\ call.current_temp_c = None
    /\ call.confidence = <<1, 10>>

----------------------------------------------------------------------------
(* The counters a run reports *)

\* the stations of a run that reached the forecast and got none: no series
\* (fewer than min_rows cleaned rows), hence no ensemble output
SkippedStations ==
    {n \in 1..Len(cfg.station_items) :
        /\ cfg.station_coords[cfg.station_items[n]] # <<>>
        /\ cfg.series[cfg.station_items[n]].n < MinRows}

\* C18: the skipped count a run reports in its final log line is the number
\* of stations it skipped for an absent series or an empty forecast.
C18_SkippedCountReported ==
    \A r \in RunIds :
        run[r].pc = "done" /\ cfg.bootstrap_enabled =>
            run[r].skipped_station = Cardinality(SkippedStations)

----------------------------------------------------------------------------
(* Where a gridpoint takes the forecast of a neighbour from *)

\* a run is at a candidate station of a gridpoint
Collecting(r) ==
    /\ run[r].pc = "collect"
    /\ run[r].k <= Len(StationList(cfg.grid_rows[run[r].g], cfg.neighbor_map))

\* C19: at each candidate station of a gridpoint the forecast made earlier
\* in the run is taken when there is one; the stored rows of the station
\* for the run's forecast date are taken only when there is none; a
\* candidate with neither is not among the contributing stations.
C19_MemoryBeforeStoredRows ==
    [][\A r \in RunIds :
          (Collecting(r) /\ run'[r].pc = "collect" /\ run'[r].k = run[r].k + 1) =>
              LET sid == StationList(cfg.grid_rows[run[r].g],
                                     cfg.neighbor_map)[run[r].k][1]
                  memory == run[r].station_preds[sid]
                  stored == load_forecast_rows(store, "station", sid,
                                               cfg.forecast_date, LoadDays)
                  before == run[r].station_forecasts
                  after == run'[r].station_forecasts
              IN  IF memory = <<>> /\ stored = <<>>
                  THEN after = before
                  ELSE /\ Len(after) = Len(before) + 1
                       /\ SubSeq(after, 1, Len(before)) = before
                       /\ after[Len(after)].sid = sid
                       /\ after[Len(after)].preds =
                              IF memory # <<>> THEN memory ELSE stored]_vars

\* a gridpoint with one contributing station taken from the run's memory
\* while rows of it are stored, and one taken from the table
C19_Witness ==
    \E r \in RunIds :
        /\ run[r].pc = "store_grid"
        /\ Len(run[r].station_forecasts) = 2
        /\ run[r].station_preds[run[r].station_forecasts[1].sid] # <<>>
        /\ run[r].station_forecasts[1].preds
              # load_forecast_rows(store, "station", run[r].station_forecasts[1].sid,
                                   cfg.forecast_date, LoadDays)
        /\ run[r].station_preds[run[r].station_forecasts[2].sid] = <<>>

----------------------------------------------------------------------------
(* as_of of gridpoint rows *)

\* C20: every gridpoint row a run writes, merged from several stations or
\* copied from one, has as_of_date equal to the run's forecast date.
C20_GridRowsAsOfForecastDate ==
    /\ \A r \in RunIds : \A n \in 1..Len(run[r].out) :
          run[r].out[n].as_of_date = cfg.forecast_date
    /\ \A a \in DOMAIN store :
          store[a].source_type = "gridpoint" =>
              store[a].as_of_date = cfg.forecast_date

\* a run has stored a merged row of a gridpoint one of whose stations was
\* taken from the table
C20_Witness ==
    \E r \in RunIds :
        /\ Merging(r)
        /\ run[r].j > 1
        /\ \E m \in 1..Len(run[r].station_forecasts) :
              run[r].station_preds[run[r].station_forecasts[m].sid] = <<>>
        /\ \E a \in DOMAIN store : store[a].source_type = "gridpoint"

----------------------------------------------------------------------------
(* Missing optional inputs *)

\* the stations a run can forecast: coordinates and min_rows cleaned rows
Forecastable == {sid \in StationIds :
                    cfg.station_coords[sid] # <<>> /\ cfg.series[sid].n >= MinRows}

\* a candidate station of a gridpoint has a forecast, made in the run or stored
HasContributor(grid_row) ==
    \E sid \in StationIds :
        /\ \/ \E n \in 1..Len(Get(cfg.neighbor_map, grid_row[1])) :
                 Get(cfg.neighbor_map, grid_row[1])[n][1] = sid
           \/ Get(cfg.neighbor_map, grid_row[1]) = <<>> /\ grid_row[4] = sid
        /\ \/ sid \in Forecastable
           \/ \E a \in DOMAIN cfg.prior : /\ cfg.prior[a].source_type = "station"
                                          /\ cfg.prior[a].source_id = sid

\* the run has stored rows for every station it can forecast and for every
\* gridpoint with a contributing station
Processed(r) ==
    /\ \A sid \in Forecastable :
          /\ run[r].station_preds[sid] # <<>>
          /\ \A n \in 1..Len(run[r].station_preds[sid]) :
                \E a \in DOMAIN store :
                    /\ store[a].source_type = "station"
                    /\ store[a].source_id = sid
                    /\ store[a].horizon_hours
                          = run[r].station_preds[sid][n].horizon_hours
    /\ \A g \in 1..Len(cfg.grid_rows) :
          HasContributor(cfg.grid_rows[g]) =>
              \E a \in DOMAIN store : /\ store[a].source_type = "gridpoint"
                                      /\ store[a].source_id = cfg.grid_rows[g][1]

\* an optional input is missing for a station or a gridpoint
MissingInput ==
    \/ \E sid \in StationIds : cfg.station_coords[sid] = <<>>
    \/ \E sid \in StationIds : cfg.current_temp[sid] = None
    \/ \E gid \in GridIds : Get(cfg.neighbor_map, gid) = <<>>

\* C21: a run in which no statement raises completes, whatever coordinates,
\* current temperatures and neighbour lists are missing, and has then
\* stored the rows of every station and gridpoint that can be served.
C21_MissingInputsDoNotFail ==
    \A r \in RunIds :
        (run[r].pc \in Active /\ MissingInput)
            ~> (run[r].pc = "done" /\ Processed(r))

\* a completed run without coordinates for the first station, without any
\* current temperature and without any neighbour list, which stored the
\* second station and the gridpoint served by it
C21_Witness ==
    \E r \in RunIds :
        /\ run[r].pc = "done"
        /\ cfg.station_coords["s1"] = <<>>
        /\ \A sid \in StationIds : cfg.current_temp[sid] = None
        /\ \A gid \in GridIds : Get(cfg.neighbor_map, gid) = <<>>
        /\ run[r].stored_station > 0
        /\ run[r].stored_grid > 0

----------------------------------------------------------------------------
(* Gridpoints without a forecast *)

\* the rows stored for gridpoint gid
GridRowsOf(st, gid) ==
    {a \in DOMAIN st : st[a].source_type = "gridpoint" /\ st[a].source_id = gid}

\* run r is at a gridpoint it has found no forecast for
AtEmptyGrid(r) ==
    \/ /\ run[r].pc = "grid"
       /\ run[r].g <= Len(cfg.grid_rows)
       /\ Get(cfg.neighbor_map, cfg.grid_rows[run[r].g][1]) = <<>>
       /\ cfg.grid_rows[run[r].g][4] = NullId
    \/ /\ run[r].pc = "collect"
       /\ run[r].k > Len(StationList(cfg.grid_rows[run[r].g], cfg.neighbor_map))
       /\ run[r].station_forecasts = <<>>

\* C22: a gridpoint with neither a neighbour list nor a primary station, or
\* none of whose candidates has a forecast in memory or in the table, is
\* left without a row, and the statement after it is the next gridpoint.
C22_EmptyGridSkipped ==
    [][\A r \in RunIds :
         /\ (AtEmptyGrid(r) /\ run'[r] # run[r] /\ run'[r].pc # "failed") =>
                /\ store' = store
                /\ run'[r].pc = "grid"
                /\ run'[r].g = run[r].g + 1
                /\ run'[r].stored_grid = run[r].stored_grid
         /\ \A g \in 1..Len(cfg.grid_rows) :
                ~HasContributor(cfg.grid_rows[g]) =>
                    GridRowsOf(store', cfg.grid_rows[g][1]) = {}]_vars

\* a completed run that passed a gridpoint with neither list nor primary
\* station and a gridpoint whose only candidate had no forecast anywhere
C22_Witness ==
    /\ run[1].pc = "done"
    /\ StationList(cfg.grid_rows[1], cfg.neighbor_map) = <<>>
    /\ StationList(cfg.grid_rows[2], cfg.neighbor_map) # <<>>
    /\ ~HasContributor(cfg.grid_rows[2])
    /\ run[1].stored_station > 0
    /\ GridRowsOf(store, "g1") = {} /\ GridRowsOf(store, "g2") = {}

----------------------------------------------------------------------------
(* Gridpoints without a neighbour list *)

\* run r is at a gridpoint that has a primary station and no neighbour list
AtPrimaryOnly(r) ==
    /\ run[r].g \in 1..Len(cfg.grid_rows)
    /\ Get(cfg.neighbor_map, cfg.grid_rows[run[r].g][1]) = <<>>
    /\ cfg.grid_rows[run[r].g][4] # NullId

\* C23: a gridpoint that has a primary station and no neighbour list (no
\* entry or an empty one) gets the primary station as its only candidate,
\* with no distance; what is stored for it is a copy of that station's
\* forecast, row by row.
C23_PrimaryStationAlone ==
    [][\A r \in RunIds :
         /\ (run[r].pc = "grid" /\ AtPrimaryOnly(r)
               /\ run'[r] # run[r] /\ run'[r].pc # "failed") =>
                (run'[r].pc = "collect" /\ run'[r].k = 1 /\ run'[r].g = run[r].g)
         /\ (run[r].pc = "collect" /\ AtPrimaryOnly(r)) =>
                LET grid_row == cfg.grid_rows[run[r].g]
                    sf == run'[r].station_forecasts
                IN  /\ StationList(grid_row, cfg.neighbor_map)
                          = <<<<grid_row[4], None>>>>
                    /\ Len(sf) <= 1
                    /\ \A n \in 1..Len(sf) :
                          /\ sf[n].sid = grid_row[4]
                          /\ sf[n].dist_km = None
                          /\ sf[n].weight = R(1)
                    /\ run'[r].pc = "store_grid" =>
                          /\ Len(sf) = 1
                          /\ Len(run'[r].out) = Len(sf[1].preds)
                          /\ \A n \in 1..Len(sf[1].preds) :
                                run'[r].out[n] = CopiedRow(grid_row, sf[1].preds[n])]_vars

\* the run is storing the copy of the primary station's forecast for a
\* gridpoint without a neighbour list
C23_Witness ==
    \E r \in RunIds :
        /\ run[r].pc = "store_grid"
        /\ AtPrimaryOnly(r)
        /\ Len(run[r].station_forecasts) = 1
        /\ run[r].station_forecasts[1].dist_km = None
        /\ Len(run[r].out) > 1

----------------------------------------------------------------------------
(* Termination *)

\* C24: a run that has started has, in every state, a next statement it can
\* execute whatever the other run is doing, and whenever a run is under way
\* a state follows in which none is: a run leaves its loops only as
\* completed or failed.
C24_RunEnds ==
    /\ [](\A r \in RunIds : run[r].pc \in Active => ENABLED NormalStep(r))
    /\ (\E r \in RunIds : run[r].pc \in Active)
          ~> (\A r \in RunIds : run[r].pc \notin Active)

\* one run has completed and one has failed
C24_Witness ==
    \E r, q \in RunIds :
        /\ run[r].pc = "done" /\ run[r].stored_grid > 0
        /\ run[q].pc = "failed" /\ run[q].stored_station > 0

----------------------------------------------------------------------------
(* Gridpoints served from stored rows *)

\* the StationForecastSet the earlier run of the day computed for sid
EarlierSet(sid) ==
    predict_station_forecast(
        Series(MinRows, cfg.forecast_date - 1, R(cfg.base[sid])),
        cfg.base[sid], None, cfg.forecast_date, HorizonDays, TRUE)

\* the table an earlier run left is what its store_prediction calls for
\* the whole set of sid made of it
PersistedFrom(sid) ==
    cfg.prior = UpsertAll(<<>>, StationRows(sid, StationLatLon(sid), EarlierSet(sid)))

\* the collected forecasts with the set of sid held in memory
WithSetInMemory(station_forecasts, sid) ==
    [n \in 1..Len(station_forecasts) |->
        IF station_forecasts[n].sid = sid
        THEN [station_forecasts[n] EXCEPT !.preds = EarlierSet(sid)]
        ELSE station_forecasts[n]]

RowSet(rows) == {rows[n] : n \in 1..Len(rows)}

\* run r is storing a gridpoint to which sid contributes rows read from
\* the table
ServedFromTable(r, sid) ==
    /\ run[r].pc = "store_grid"
    /\ Get(run[r].station_preds, sid) = <<>>
    /\ \E n \in 1..Len(run[r].station_forecasts) :
          run[r].station_forecasts[n].sid = sid

\* C25: the rows written for a gridpoint from a station's stored rows are
\* the rows that would be written with the station's whole forecast set
\* (every variant, every horizon) in memory.
C25_LoadedAsInMemory ==
    \A r \in RunIds : \A sid \in StationIds :
        (ServedFromTable(r, sid) /\ PersistedFrom(sid)) =>
            RowSet(run[r].out)
              = RowSet(GridOut(cfg.grid_rows[run[r].g],
                               WithSetInMemory(run[r].station_forecasts, sid),
                               cfg.forecast_date, cfg.data_date))

----------------------------------------------------------------------------
(* The limits on stations and gridpoints *)

\* the elements of a list a limit lets through
Allowed(items, limit) ==
    {items[n] : n \in {m \in 1..Len(items) : limit <= 0 \/ m <= limit}}

AllowedStations == Allowed(cfg.station_items, cfg.bootstrap_station_limit)
AllowedGrids ==
    {row[1] : row \in Allowed(cfg.grid_rows, cfg.bootstrap_grid_limit)}

\* C26: with a station limit L > 0 a run forecasts the first L stations at
\* most, with a gridpoint limit G > 0 it writes the first G gridpoints at
\* most, and with a limit of 0 or below it handles the whole list; a
\* completed run has handled every station and gridpoint within the limits.
C26_LimitsCapTheLists ==
    \A r \in RunIds :
        /\ \A sid \in StationIds :
              run[r].station_preds[sid] # <<>> => sid \in AllowedStations
        /\ \A gid \in GridIds :
              GridRowsOf(store, gid) # {} => gid \in AllowedGrids
        /\ run[r].pc = "done" =>
              /\ \A sid \in AllowedStations : run[r].station_preds[sid] # <<>>
              /\ \A gid \in AllowedGrids : GridRowsOf(store, gid) # {}

\* a completed run limited to one station and one gridpoint out of two
C26_Witness ==
    \E r \in RunIds :
        /\ run[r].pc = "done"
        /\ cfg.bootstrap_station_limit = 1 /\ cfg.bootstrap_grid_limit = 1
        /\ Len(cfg.station_items) = 2 /\ Len(cfg.grid_rows) = 2
        /\ run[r].station_preds["s1"] # <<>> /\ run[r].station_preds["s2"] = <<>>
        /\ GridRowsOf(store, "g1") # {} /\ GridRowsOf(store, "g2") = {}

----------------------------------------------------------------------------
(* StationSeries.from_rows *)

\* the rows from_rows has to keep, as the series holds them
KeptTuples(rows) ==
    LET kept == {n \in 1..Len(rows) :
                    rows[n][1] # None /\ rows[n][2] # None /\ rows[n][3] # None}
    IN  [n \in kept |->
            <<rows[n][1][1], rows[n][2], rows[n][3],
              IF rows[n][4] = None THEN R(0) ELSE rows[n][4]>>]

\* the observations of a series
SeriesTuples(series) ==
    [n \in 1..Len(series.dates) |->
        <<series.dates[n], series.tmax_c[n], series.tmin_c[n], series.prcp_mm[n]>>]

\* how often x is a value of f
Count(f, x) == Cardinality({n \in DOMAIN f : f[n] = x})

\* C27: from_rows gives no series when fewer than min_rows rows have a
\* date, a tmax and a tmin; otherwise the series holds exactly those rows,
\* a NULL prcp as 0, in ascending order of date, tmean is (tmax + tmin) / 2
\* and last_date is the latest date kept.
C27_FromRowsCleansAndSorts ==
    (call # NoCall /\ call.op = "series") =>
        LET kept == KeptTuples(call.rows)
            series == call.series
        IN  IF Cardinality(DOMAIN kept) < call.min_rows
            THEN series = None
            ELSE /\ series # None
                 /\ Len(series.dates) = Cardinality(DOMAIN kept)
                 /\ \A n \in DOMAIN kept :
                       Count(SeriesTuples(series), kept[n]) = Count(kept, kept[n])
                 /\ \A a, b \in 1..Len(series.dates) :
                       a < b => series.dates[a] <= series.dates[b]
                 /\ \A n \in 1..Len(series.dates) :
                       series.tmean_c[n]
                         = RDiv(RAdd(series.tmax_c[n], series.tmin_c[n]), R(2))
                 /\ \A n \in DOMAIN kept : kept[n][1] <= series.last_date
                 /\ \E n \in DOMAIN kept : kept[n][1] = series.last_date

\* a series made of rows out of date order, one of them dropped for its
\* NULL tmax and one kept with a NULL prcp
C27_Witness ==
    /\ call # NoCall /\ call.op = "series"
    /\ call.series # None
    /\ Len(call.series.dates) < Len(call.rows)
    /\ \E n \in 1..Len(call.rows) : call.rows[n][2] = None
    /\ \E n \in 1..Len(call.rows) :
          /\ call.rows[n][4] = None
          /\ call.rows[n][2] # None
    /\ \E a, b \in 1..Len(call.rows) :
          a < b /\ call.rows[a][2] # None /\ call.rows[b][2] # None
                /\ call.rows[a][1][1] > call.rows[b][1][1]

----------------------------------------------------------------------------
(* StationSeries.downsample *)

\* C28: downsample(max_points) with max_points >= 1 returns the series
\* itself when it has at most max_points observations; otherwise it keeps
\* at most max_points observations, those at strictly increasing indices
\* that include the first and the last, so that last_date is the date of
\* the last observation kept.
C28_DownsampleKeepsEnds ==
    (call # NoCall /\ call.op = "down") =>
        LET series == call.series
            out == call.out
            n == Len(series.dates)
            idx == Linspace(n - 1, call.max_points)
        IN  IF n <= call.max_points
            THEN out = series
            ELSE /\ Len(out.dates) <= call.max_points
                 /\ Len(out.dates) = Len(idx)
                 /\ \A k \in 1..Len(idx) :
                       /\ out.dates[k] = series.dates[idx[k] + 1]
                       /\ out.tmin_c[k] = series.tmin_c[idx[k] + 1]
                       /\ out.tmax_c[k] = series.tmax_c[idx[k] + 1]
                       /\ out.prcp_mm[k] = series.prcp_mm[idx[k] + 1]
                       /\ out.tmean_c[k] = series.tmean_c[idx[k] + 1]
                 /\ \A a, b \in 1..Len(idx) : a < b => idx[a] < idx[b]
                 /\ idx[1] = 0
                 /\ idx[Len(idx)] = n - 1
                 /\ out.last_date = out.dates[Len(out.dates)]

----------------------------------------------------------------------------
(* Stations without coordinates *)

\* the rows stored for station sid
StationRowSet(st, sid) ==
    {st[a] : a \in {b \in DOMAIN st : st[b].source_type = "station"
                                        /\ st[b].source_id = sid}}

\* sid has a series long enough to be forecast and no coordinates
NoCoords(sid) ==
    cfg.station_coords[sid] = <<>> /\ cfg.series[sid].n >= MinRows

\* C29: a station that has a series and no coordinates is not forecast: the
\* run holds nothing for it in memory and stores no row for it, and a
\* gridpoint that has it as a candidate gets from it only the rows an
\* earlier run stored.
C29_NoCoordsNoForecast ==
    \A r \in RunIds : \A sid \in StationIds :
        NoCoords(sid) =>
            /\ run[r].station_preds[sid] = <<>>
            /\ StationRowSet(store, sid) = StationRowSet(cfg.prior, sid)
            /\ \A n \in 1..Len(run[r].station_forecasts) :
                  run[r].station_forecasts[n].sid = sid =>
                      run[r].station_forecasts[n].preds
                        = load_forecast_rows(cfg.prior, "station", sid,
                                             cfg.forecast_date, LoadDays)

\* a gridpoint is being merged from a station forecast in this run and the
\* stored rows of a station that has a series and no coordinates
C29_Witness ==
    \E r \in RunIds :
        /\ run[r].pc = "store_grid"
        /\ NoCoords("s2")
        /\ run[r].station_preds["s1"] # <<>>
        /\ Len(run[r].station_forecasts) = 2
        /\ run[r].station_forecasts[2].sid = "s2"
        /\ run[r].station_forecasts[2].preds # <<>>

----------------------------------------------------------------------------
(* The KNN model cache *)

\* C30: whatever the interleaving of the calls, a key is trained with
\* success once at most, every call that returns a model returns the one
\* cached under its key, and a training that gives no model leaves the
\* cache as it was, so that the next call for the key trains again.
C30_TrainedOncePerKey ==
    [][/\ \A key \in Keys : knn'.trained[key] <= 1
       /\ \A c \in Threads :
             (knn'.th[c].pc = "done" /\ knn'.th[c].result # None) =>
                 knn'.th[c].result = knn'.cache[knn'.th[c].key]
       /\ \A c \in Threads :
             (knn.th[c].pc = "train" /\ knn'.th[c].pc \in {"done", "raised"}) =>
                 /\ knn'.cache = knn.cache
                 /\ knn'.th[c].result = None
       /\ \A c \in Threads :
             (knn'.th[c].pc = "train") => knn'.cache[knn'.th[c].key] = None]_vars

\* a call whose training gave no model, and a later call for the same key
\* that trained and returned the model a third call got from the cache
C30_Witness ==
    \E a, b, c \in Threads :
        /\ a # b /\ b # c /\ a # c
        /\ knn.th[a].key = knn.th[b].key /\ knn.th[b].key = knn.th[c].key
        /\ knn.th[a].pc = "done" /\ knn.th[a].result = None
        /\ knn.th[b].pc = "done" /\ knn.th[b].result # None
        /\ knn.th[c].pc = "done" /\ knn.th[c].result = knn.th[b].result
        /\ knn.trained[knn.th[a].key] = 1

====
